---- MODULE Spec2Model ----
(***************************************************************************)
(* A model of mfe, the Moodle File Extractor (src/mfe.go).                 *)
(*                                                                         *)
(* main runs three functions in sequence: buildFileMapping reads files.xml *)
(* into a map id -> File, processActivitiesFolder annotates the records    *)
(* with a folder name taken from activities/folder_*, and copyFiles copies *)
(* each record's payload files/<xy>/<xyz...> to the destination folder.    *)
(*                                                                         *)
(* Strings whose characters matter (file names, folder names, content      *)
(* hashes, directory names) are what a Go string is: the sequence of the   *)
(* bytes of their UTF-8 encoding, so that Len is len and SubSeq(s, 1, 2)   *)
(* is s[:2].  File ids are opaque and are TLA+ strings.  The XML documents *)
(* are modelled by what encoding/xml decodes them to, together with        *)
(* whether opening and decoding succeed.                                   *)
(***************************************************************************)
EXTENDS Integers, Sequences, FiniteSets, TLC

VARIABLES
    pc,           \* position of main: "start", "built", "resolved", "done", "exit1"
    debug,        \* the -d flag (*debug)
    filesXML,     \* the source's files.xml: [open, parse, files]
    activities,   \* the source's activities directory: [list, dirs]
    store,        \* the source paths under files/ that can be opened
    faults,       \* the environment's failing operations: [mkdir, create, copy]
    dest,         \* the destination file system: path -> node, for existing paths
    fileMapping,  \* main's fileMapping: id -> File
    copiedFiles,  \* the value copyFiles returned (n in main)
    stdout,       \* the lines printed by this run, in order
    runs,         \* how many times the program has been started
    destAtStart,  \* dest as it was when the current run started
    handles,      \* the files this run has open, by name, in the order opened
    opened,       \* how many files this run has opened
    fileName,     \* the argument of a sanitizeFileName call
    sanitized,    \* the current result of the sanitizeFileName calls
    calls         \* how many times sanitizeFileName has been applied

mainVars == <<pc, debug, filesXML, activities, store, faults, dest, fileMapping,
              copiedFiles, stdout, runs, destAtStart, handles, opened>>
sanVars == <<fileName, sanitized, calls>>
vars == <<pc, debug, filesXML, activities, store, faults, dest, fileMapping,
          copiedFiles, stdout, runs, destAtStart, handles, opened,
          fileName, sanitized, calls>>

(***************************************************************************)
(* Bounds of the model.                                                    *)
(***************************************************************************)
MaxLen == 3      \* longest string given to sanitizeFileName alone
MaxCalls == 2    \* how many times sanitizeFileName is applied in a row
MaxFiles == 3    \* most <file> entries of files.xml
MaxDirs == 2     \* most entries of the activities directory
MaxRecords == 2  \* most records of the mapping that copyFiles is given
MaxRuns == 2     \* how many times the program is started on the same inputs

(***************************************************************************)
(* Strings.                                                                *)
(***************************************************************************)
Empty == <<>>
Dot == <<46>>                  \* "."
DotDot == <<46, 46>>           \* ".."
StrA == <<97>>                 \* "a"
StrB == <<98>>                 \* "b"
StrD == <<100>>                \* "d"
Slash == <<47>>                \* "/"
HashX == <<120>>               \* "x", a content hash of length 1
HashE == <<195, 169>>          \* "\u00e9": one character, two bytes
HashEA == <<195, 169, 97>>     \* "\u00e9a": two characters, three bytes
HashDots == <<46, 46>>         \* ".." as a content hash
HashAB == <<97, 98>>           \* "ab"
HashCD == <<99, 100>>          \* "cd"
FolderPrefix == <<102, 111, 108, 100, 101, 114, 95>>   \* "folder_"

HasPrefix(s, prefix) ==
    /\ Len(s) >= Len(prefix)
    /\ SubSeq(s, 1, Len(prefix)) = prefix

\* The characters of the class [<>:"/\\|?*\x00-\x1F].  All are ASCII, and no
\* byte of a longer UTF-8 sequence (128 or more) is one of them: matching the
\* class byte by byte is matching it character by character.
forbidden == {60, 62, 58, 34, 47, 92, 124, 63, 42} \cup (0..31)

\* s without its leading run of forbidden characters: what is left after one
\* leftmost-longest match of forbidden+ at the start of s.
RECURSIVE DropMatch(_)
DropMatch(s) ==
    IF s # <<>> /\ Head(s) \in forbidden THEN DropMatch(Tail(s)) ELSE s

\* regexp.ReplaceAllString for the pattern forbidden+: every maximal run of
\* forbidden characters is replaced by repl, the other characters are copied.
RECURSIVE ReplaceAllString(_, _)
ReplaceAllString(src, repl) ==
    IF src = <<>> THEN <<>>
    ELSE IF Head(src) \in forbidden
         THEN repl \o ReplaceAllString(DropMatch(src), repl)
         ELSE <<Head(src)>> \o ReplaceAllString(Tail(src), repl)

\* A sanitizeFileName that does what its comment says: a hyphen for each run.
sanitizeWithHyphen(name) == ReplaceAllString(name, <<45>>)

sanitizeFileName(name) == ReplaceAllString(name, <<>>)

(***************************************************************************)
(* Output.  A printed line is [msg, id, path]: what is said, about which   *)
(* file id, about which path or name.                                      *)
(***************************************************************************)
Line(msg, id, path) == [msg |-> msg, id |-> id, path |-> path]

Printf(out, line) == Append(out, line)

logDebug(out, line) == IF debug THEN Printf(out, line) ELSE out

(***************************************************************************)
(* Maps.                                                                   *)
(***************************************************************************)
EmptyMap == [k \in {} |-> k]

MapPut(m, k, v) == [x \in DOMAIN m \cup {k} |-> IF x = k THEN v ELSE m[x]]

(***************************************************************************)
(* File handles.  An operation carries the names of the files it opened,   *)
(* in order, and the positions in that list whose Close it has deferred.   *)
(* The deferred calls run when the operation returns.                      *)
(***************************************************************************)
NoHandles == [opened |-> <<>>, deferred |-> {}]

\* source.Open(name) or os.Create(name) returned a file.
Open(acc, name) == [acc EXCEPT !.opened = Append(@, name)]

\* defer f.Close(), for the file opened last.
DeferClose(acc) == [acc EXCEPT !.deferred = @ \cup {Len(acc.opened)}]

\* Deferred closures that all read one variable declared outside the loop:
\* at return each of them closes the file opened last.
StillOpenCaptured(acc) ==
    LET closed == IF acc.deferred = {} THEN {} ELSE {Len(acc.opened)}
    IN  SelectSeq([i \in 1..Len(acc.opened) |-> IF i \in closed THEN "" ELSE acc.opened[i]],
                  LAMBDA name : name # "")

\* The files still open once the operation has returned.
StillOpen(acc) ==
    SelectSeq([i \in 1..Len(acc.opened) |-> IF i \in acc.deferred THEN "" ELSE acc.opened[i]],
              LAMBDA name : name # "")

(***************************************************************************)
(* buildFileMapping.                                                       *)
(***************************************************************************)
\* What encoding/xml decodes one <file> element to: Folder is never decoded.
File(id, hash, name) ==
    [ID |-> id, ContentHash |-> hash, Filename |-> name, Folder |-> Empty]

\* A loop body that keeps the first record of an id instead of the last.
buildEntryFirstWins(acc, entry) ==
    LET file == [entry EXCEPT !.Filename = sanitizeFileName(@)] IN
    IF file.ID = "" \/ file.ContentHash = Empty \/ file.Filename = Dot
       \/ file.ID \in DOMAIN acc.fileMapping
    THEN acc
    ELSE [acc EXCEPT
             !.fileMapping = MapPut(acc.fileMapping, file.ID, file),
             !.out = logDebug(acc.out, Line("Added file to mapping", file.ID, file.Filename))]

\* One iteration of the loop over files.Files.
buildEntry(acc, entry) ==
    LET file == [entry EXCEPT !.Filename = sanitizeFileName(@)] IN
    IF file.ID = "" \/ file.ContentHash = Empty \/ file.Filename = Dot
    THEN acc
    ELSE [acc EXCEPT
             !.fileMapping = MapPut(acc.fileMapping, file.ID, file),
             !.out = logDebug(acc.out, Line("Added file to mapping", file.ID, file.Filename))]

RECURSIVE buildLoop(_, _, _)
buildLoop(files, i, acc) ==
    IF i > Len(files) THEN acc
    ELSE buildLoop(files, i + 1, buildEntry(acc, files[i]))

\* buildFileMapping(source, "files.xml"): [err, fileMapping, out, open, opened].
buildFileMapping(xml, out) ==
    LET file == DeferClose(Open(NoHandles, "files.xml")) IN
    IF ~xml.open
    THEN [err |-> "error reading files.xml", fileMapping |-> EmptyMap, out |-> out,
          open |-> StillOpen(NoHandles), opened |-> 0]
    ELSE IF ~xml.parse
    THEN [err |-> "error parsing files.xml", fileMapping |-> EmptyMap, out |-> out,
          open |-> StillOpen(file), opened |-> Len(file.opened)]
    ELSE LET acc == buildLoop(xml.files, 1,
                              [fileMapping |-> EmptyMap, out |-> out,
                               opened |-> file.opened, deferred |-> file.deferred])
         IN [err |-> "", fileMapping |-> acc.fileMapping, out |-> acc.out,
             open |-> StillOpen(acc), opened |-> Len(acc.opened)]

(***************************************************************************)
(* processActivitiesFolder.                                                *)
(*                                                                         *)
(* An entry of the activities directory is                                 *)
(*   [Name, folderXML: [open, parse, FolderName],                          *)
(*          inforefXML: [open, parse, Files]]                              *)
(* where FolderName is the decoded folder>name and Files the decoded       *)
(* fileref>file>id list.                                                   *)
(***************************************************************************)
\* A reference that files the record without looking the id up first.
assignFolderNoLookup(acc, id, folderName) ==
    [acc EXCEPT
     !.fileMapping = MapPut(acc.fileMapping, id,
                            [ID |-> IF id \in DOMAIN acc.fileMapping
                                    THEN acc.fileMapping[id].ID ELSE "",
                             ContentHash |-> IF id \in DOMAIN acc.fileMapping
                                    THEN acc.fileMapping[id].ContentHash ELSE Empty,
                             Filename |-> IF id \in DOMAIN acc.fileMapping
                                    THEN acc.fileMapping[id].Filename ELSE Empty,
                             Folder |-> folderName]),
     !.out = logDebug(acc.out, Line("Assigned folder to file", id, folderName))]

\* A reference that files the record only when it has no folder yet.
assignFolderOnce(acc, id, folderName) ==
    IF id \in DOMAIN acc.fileMapping /\ acc.fileMapping[id].Folder = Empty
    THEN [acc EXCEPT
             !.fileMapping = MapPut(acc.fileMapping, id,
                                    [acc.fileMapping[id] EXCEPT !.Folder = folderName]),
             !.out = logDebug(acc.out, Line("Assigned folder to file", id, folderName))]
    ELSE acc

\* One iteration of the loop over inforefData.Files.
assignFolder(acc, id, folderName) ==
    IF id \in DOMAIN acc.fileMapping
    THEN [acc EXCEPT
             !.fileMapping = MapPut(acc.fileMapping, id,
                                    [acc.fileMapping[id] EXCEPT !.Folder = folderName]),
             !.out = logDebug(acc.out, Line("Assigned folder to file", id, folderName))]
    ELSE [acc EXCEPT
             !.out = logDebug(acc.out,
                              Line("Warning: File ID not found in file_mapping", id, Empty))]

RECURSIVE refsLoop(_, _, _, _)
refsLoop(refs, i, acc, folderName) ==
    IF i > Len(refs) THEN acc
    ELSE refsLoop(refs, i + 1, assignFolder(acc, refs[i], folderName), folderName)

\* Whether the iteration for dir reaches the loop over the file references.
bundleRead(dir) ==
    /\ HasPrefix(dir.Name, FolderPrefix)
    /\ dir.folderXML.open /\ dir.folderXML.parse
    /\ dir.inforefXML.open /\ dir.inforefXML.parse

\* One iteration of the loop over dirs.
processDir(acc, dir) ==
    IF ~HasPrefix(dir.Name, FolderPrefix) THEN acc
    ELSE IF ~dir.folderXML.open
    THEN [acc EXCEPT !.out = Printf(@, Line("Warning: folder.xml not found", "", dir.Name))]
    ELSE LET folderFile == DeferClose(Open(acc, "folder.xml"))
             folderName == sanitizeFileName(dir.folderXML.FolderName)
             inforefFile == DeferClose(Open(folderFile, "inforef.xml"))
         IN
         IF ~dir.folderXML.parse
         THEN [folderFile EXCEPT
                  !.out = Printf(@, Line("Error parsing folder.xml", "", dir.Name))]
         ELSE IF ~dir.inforefXML.open
         THEN [folderFile EXCEPT
                  !.out = Printf(@, Line("Warning: inforef.xml not found", "", dir.Name))]
         ELSE IF ~dir.inforefXML.parse
         THEN [inforefFile EXCEPT
                  !.out = Printf(@, Line("Error parsing inforef.xml", "", dir.Name))]
         ELSE refsLoop(dir.inforefXML.Files, 1, inforefFile, folderName)

\* A loop that stops at the first bundle it cannot read (break for continue).
RECURSIVE dirsLoopBreak(_, _, _)
dirsLoopBreak(dirs, i, acc) ==
    IF i > Len(dirs) THEN acc
    ELSE IF HasPrefix(dirs[i].Name, FolderPrefix) /\ ~bundleRead(dirs[i])
         THEN processDir(acc, dirs[i])
         ELSE dirsLoopBreak(dirs, i + 1, processDir(acc, dirs[i]))

\* The references decoded from the bundles read up to the i-th, in order.
RECURSIVE refsUpTo(_, _)
refsUpTo(dirs, i) ==
    IF i = 0 THEN <<>>
    ELSE refsUpTo(dirs, i - 1)
         \o (IF bundleRead(dirs[i]) THEN dirs[i].inforefXML.Files ELSE <<>>)

\* A loop with inforefData declared outside it: encoding/xml appends to the
\* slice, so each bundle files the references of the bundles before it too.
RECURSIVE dirsLoopAccumulate(_, _, _)
dirsLoopAccumulate(dirs, i, acc) ==
    IF i > Len(dirs) THEN acc
    ELSE dirsLoopAccumulate(dirs, i + 1,
             processDir(acc, [dirs[i] EXCEPT !.inforefXML.Files = refsUpTo(dirs, i)]))

RECURSIVE dirsLoop(_, _, _)
dirsLoop(dirs, i, acc) ==
    IF i > Len(dirs) THEN acc
    ELSE dirsLoop(dirs, i + 1, processDir(acc, dirs[i]))

\* A processActivitiesFolder that goes on without the listing when fs.ReadDir fails.
processActivitiesFolderUnchecked(act, mapping, out) ==
    LET acc == dirsLoop(act.dirs, 1,
                        [fileMapping |-> mapping, out |-> out,
                         opened |-> <<>>, deferred |-> {}])
    IN [err |-> "", fileMapping |-> acc.fileMapping, out |-> acc.out,
        open |-> StillOpen(acc), opened |-> Len(acc.opened)]

\* processActivitiesFolder(source, "activities", fileMapping):
\* [err, fileMapping, out, open, opened].
processActivitiesFolder(act, mapping, out) ==
    IF ~act.list
    THEN [err |-> "error reading activities folder", fileMapping |-> mapping, out |-> out,
          open |-> StillOpen(NoHandles), opened |-> 0]
    ELSE LET acc == dirsLoop(act.dirs, 1,
                             [fileMapping |-> mapping, out |-> out,
                              opened |-> <<>>, deferred |-> {}])
         IN [err |-> "", fileMapping |-> acc.fileMapping, out |-> acc.out,
             open |-> StillOpen(acc), opened |-> Len(acc.opened)]

(***************************************************************************)
(* Paths and the destination file system.                                  *)
(*                                                                         *)
(* A path is the sequence of its components below the root directory "/".  *)
(* The destination folder is the absolute path /w/out.  dest maps each     *)
(* existing path to its node; the parent of an existing path exists and is *)
(* a directory.                                                            *)
(***************************************************************************)
FilesDir == <<102, 105, 108, 101, 115>>          \* "files"
destinationFolder == << <<119>>, <<111, 117, 116>> >>   \* "/w/out"

NoContent == [from |-> "none", hash |-> Empty]
OldContent == [from |-> "before", hash |-> Empty]      \* a file that was already there
Payload(hash) == [from |-> "payload", hash |-> hash]   \* the bytes stored under hash
Partial(hash) == [from |-> "partial", hash |-> hash]   \* a proper prefix of them
DirNode == [kind |-> "dir", content |-> NoContent]
FileNode(content) == [kind |-> "file", content |-> content]

\* filepath.Dir of a clean absolute path.
Dir(p) == IF p = <<>> THEN p ELSE SubSeq(p, 1, Len(p) - 1)

\* filepath.Join(base, elems...) for a clean absolute base and elements without
\* a separator: empty elements are ignored, then Clean drops "." and resolves "..".
RECURSIVE Join(_, _)
Join(base, elems) ==
    IF elems = <<>> THEN base
    ELSE LET e == Head(elems) IN
         Join(IF e = Empty \/ e = Dot THEN base
              ELSE IF e = DotDot THEN Dir(base)
              ELSE Append(base, e),
              Tail(elems))

\* os.Stat(p): "ok", "ENOENT" (IsNotExist) or "ENOTDIR" (an ancestor is a file).
Stat(fs, p) ==
    IF p \in DOMAIN fs THEN "ok"
    ELSE IF \E k \in 0..(Len(p) - 1) :
               /\ SubSeq(p, 1, k) \in DOMAIN fs
               /\ fs[SubSeq(p, 1, k)].kind = "file"
         THEN "ENOTDIR"
         ELSE "ENOENT"

\* os.MkdirAll(p): [ok, fs].  The ancestors made before a failure stay.
RECURSIVE MkdirAll(_, _)
MkdirAll(fs, p) ==
    IF p \in DOMAIN fs THEN [ok |-> fs[p].kind = "dir", fs |-> fs]
    ELSE LET up == MkdirAll(fs, Dir(p)) IN
         IF ~up.ok \/ p \in faults.mkdir
         THEN [ok |-> FALSE, fs |-> up.fs]
         ELSE [ok |-> TRUE, fs |-> MapPut(up.fs, p, DirNode)]

\* os.Create(p): [ok, fs].  An existing file is truncated.
Create(fs, p) ==
    IF \/ p \in faults.create
       \/ Dir(p) \notin DOMAIN fs
       \/ fs[Dir(p)].kind # "dir"
       \/ (p \in DOMAIN fs /\ fs[p].kind = "dir")
    THEN [ok |-> FALSE, fs |-> fs]
    ELSE [ok |-> TRUE, fs |-> MapPut(fs, p, FileNode(NoContent))]

\* strings.Split(s, "/"): the pieces of s between the separators.
RECURSIVE Split(_)
Split(s) ==
    IF \A k \in 1..Len(s) : s[k] # 47 THEN <<s>>
    ELSE LET k == CHOOSE i \in 1..Len(s) : s[i] = 47 /\ \A j \in 1..(i - 1) : s[j] # 47
         IN  <<SubSeq(s, 1, k - 1)>> \o Split(SubSeq(s, k + 1, Len(s)))

\* The pieces of the elements, in order.
RECURSIVE Pieces(_)
Pieces(elems) ==
    IF elems = <<>> THEN <<>> ELSE Split(Head(elems)) \o Pieces(Tail(elems))

\* path.Clean of a relative path, piece by piece: "" and "." are dropped, ".."
\* takes back the component before it and stays when there is none to take.
RECURSIVE Clean(_, _)
Clean(pieces, done) ==
    IF pieces = <<>> THEN done
    ELSE LET e == Head(pieces) IN
         Clean(Tail(pieces),
               IF e = Empty \/ e = Dot THEN done
               ELSE IF e = DotDot /\ done # <<>> /\ done[Len(done)] # DotDot
               THEN Dir(done)
               ELSE Append(done, e))

\* path.Join(elems...) of relative elements: the components of the cleaned
\* path, <<>> being ".".  A path that begins with ".." is no path of an fs.FS
\* and cannot be opened.
PathJoin(elems) == Clean(Pieces(elems), <<>>)

(***************************************************************************)
(* copyFiles.                                                              *)
(***************************************************************************)
\* path.Join("files", file.ContentHash[:2], file.ContentHash).
sourceFilePath(file) ==
    PathJoin(<<FilesDir, SubSeq(file.ContentHash, 1, 2), file.ContentHash>>)

destinationPath(file) ==
    IF file.Folder = Empty
    THEN Join(destinationFolder, <<file.Filename>>)
    ELSE Join(destinationFolder, <<file.Folder, file.Filename>>)

Skip(acc, line) == [acc EXCEPT !.out = Printf(@, line)]

\* The part of an iteration after the destination was found not to exist.
copyToDestination(acc, file, src) ==
    LET dst == destinationPath(file)
        destinationDir == Dir(dst)
        statDir == Stat(acc.fs, destinationDir)
        made == IF statDir = "ENOENT" THEN MkdirAll(acc.fs, destinationDir)
                ELSE [ok |-> statDir = "ok", fs |-> acc.fs]
        outDir == IF statDir = "ENOENT" /\ made.ok
                  THEN Printf(acc.out, Line("Create", "", destinationDir))
                  ELSE acc.out
        created == Create(made.fs, dst)
        destinationFile == DeferClose(Open(acc, "destination"))
    IN  IF statDir = "ENOENT" /\ ~made.ok
        THEN [acc EXCEPT
                 !.fs = made.fs,
                 !.out = Printf(acc.out,
                                Line("Error creating directory", file.ID, destinationDir))]
        ELSE IF statDir = "ENOTDIR"
        THEN Skip(acc, Line("Error checking directory", file.ID, destinationDir))
        ELSE IF ~created.ok
        THEN [acc EXCEPT
                 !.fs = made.fs,
                 !.out = Printf(outDir, Line("Error creating file", file.ID, dst))]
        ELSE IF src \in faults.copy
        THEN [destinationFile EXCEPT
                 !.fs = MapPut(created.fs, dst, FileNode(Partial(file.ContentHash))),
                 !.out = Printf(outDir, Line("Error copying file", file.ID, dst))]
        ELSE [destinationFile EXCEPT
                 !.fs = MapPut(created.fs, dst, FileNode(Payload(file.ContentHash))),
                 !.copiedFiles = acc.copiedFiles + 1,
                 !.out = Printf(outDir, Line("Create", file.ID, dst))]

\* An iteration that does not look whether the destination exists.
copyFileOverwrite(acc, file) ==
    IF Len(file.ContentHash) < 2
    THEN Skip(acc, Line("Warning: Invalid ContentHash", file.ID, Empty))
    ELSE IF sourceFilePath(file) \notin store
    THEN Skip(acc, Line("Warning: File not found in source folder", file.ID,
                        sourceFilePath(file)))
    ELSE copyToDestination(DeferClose(Open(acc, "source")), file, sourceFilePath(file))

\* An iteration that counts a file it found already there.
copyFileCountSkipped(acc, file) ==
    IF Len(file.ContentHash) < 2
    THEN Skip(acc, Line("Warning: Invalid ContentHash", file.ID, Empty))
    ELSE IF sourceFilePath(file) \notin store
    THEN Skip(acc, Line("Warning: File not found in source folder", file.ID,
                        sourceFilePath(file)))
    ELSE LET sourceFile == DeferClose(Open(acc, "source")) IN
    IF Stat(acc.fs, destinationPath(file)) = "ok"
    THEN [sourceFile EXCEPT
             !.copiedFiles = acc.copiedFiles + 1,
             !.out = Printf(acc.out, Line("Skip (already exists)", file.ID,
                                          destinationPath(file)))]
    ELSE IF Stat(acc.fs, destinationPath(file)) = "ENOTDIR"
    THEN Skip(sourceFile, Line("Error checking file", file.ID, destinationPath(file)))
    ELSE copyToDestination(sourceFile, file, sourceFilePath(file))

\* An iteration without the length check, taking at most two characters of the
\* hash as the directory: a hash "x" is looked for at files/x/x.
copyFileShortHash(acc, file) ==
    LET h == file.ContentHash
        src == PathJoin(<<FilesDir, SubSeq(h, 1, IF Len(h) < 2 THEN Len(h) ELSE 2), h>>)
        sourceFile == DeferClose(Open(acc, "source"))
    IN  IF src \notin store
        THEN Skip(acc, Line("Warning: File not found in source folder", file.ID, src))
        ELSE IF Stat(acc.fs, destinationPath(file)) = "ok"
        THEN Skip(sourceFile, Line("Skip (already exists)", file.ID, destinationPath(file)))
        ELSE IF Stat(acc.fs, destinationPath(file)) = "ENOTDIR"
        THEN Skip(sourceFile, Line("Error checking file", file.ID, destinationPath(file)))
        ELSE copyToDestination(sourceFile, file, src)

\* One iteration of the loop over fileMapping.
copyFile(acc, file) ==
    IF Len(file.ContentHash) < 2
    THEN Skip(acc, Line("Warning: Invalid ContentHash", file.ID, Empty))
    ELSE IF sourceFilePath(file) \notin store
    THEN Skip(acc, Line("Warning: File not found in source folder", file.ID,
                        sourceFilePath(file)))
    ELSE LET sourceFile == DeferClose(Open(acc, "source")) IN
    IF Stat(acc.fs, destinationPath(file)) = "ok"
    THEN Skip(sourceFile, Line("Skip (already exists)", file.ID, destinationPath(file)))
    ELSE IF Stat(acc.fs, destinationPath(file)) = "ENOTDIR"
    THEN Skip(sourceFile, Line("Error checking file", file.ID, destinationPath(file)))
    ELSE copyToDestination(sourceFile, file, sourceFilePath(file))

\* A loop that returns at the first record it cannot read or write (return
\* for continue).
RECURSIVE copyLoopReturn(_, _, _, _)
copyLoopReturn(mapping, order, i, acc) ==
    IF i > Len(order) THEN acc
    ELSE LET next == copyFile(acc, mapping[order[i]]) IN
         IF next.out[Len(next.out)].msg \in
                {"Warning: File not found in source folder", "Error creating directory",
                 "Error creating file", "Error copying file"}
         THEN next
         ELSE copyLoopReturn(mapping, order, i + 1, next)

RECURSIVE copyLoop(_, _, _, _)
copyLoop(mapping, order, i, acc) ==
    IF i > Len(order) THEN acc
    ELSE copyLoop(mapping, order, i + 1, copyFile(acc, mapping[order[i]]))

\* copyFiles(source, destinationFolder, fileMapping) when the range over the map
\* yields the keys in the given order: [fs, copiedFiles, out, open, opened].
copyFiles(fs, mapping, order, out) ==
    LET acc == copyLoop(mapping, order, 1,
                        [fs |-> fs, copiedFiles |-> 0, out |-> out,
                         opened |-> <<>>, deferred |-> {}])
    IN [fs |-> acc.fs, copiedFiles |-> acc.copiedFiles, out |-> acc.out,
        open |-> StillOpen(acc), opened |-> Len(acc.opened)]

\* The orders in which a range over a map with these keys can yield them.
Orders(keys) ==
    {o \in [1..Cardinality(keys) -> keys] :
        \A i, j \in 1..Cardinality(keys) : i # j => o[i] # o[j]}

(***************************************************************************)
(* main.  Each action is one call of main together with what main does     *)
(* with its result.                                                        *)
(***************************************************************************)
MainBuild ==
    LET r == buildFileMapping(filesXML, stdout) IN
    /\ pc = "start"
    /\ r.err = ""
    /\ fileMapping' = r.fileMapping
    /\ stdout' = r.out
    /\ handles' = handles \o r.open
    /\ opened' = opened + r.opened
    /\ pc' = "built"
    /\ UNCHANGED <<debug, filesXML, activities, store, faults, dest, copiedFiles,
                   runs, destAtStart, sanVars>>

\* buildFileMapping returns an error: main prints it and exits with status 1.
MainBuildFatal ==
    LET r == buildFileMapping(filesXML, stdout) IN
    /\ pc = "start"
    /\ r.err # ""
    /\ stdout' = Printf(r.out, Line(r.err, "", Empty))
    /\ handles' = handles \o r.open
    /\ opened' = opened + r.opened
    /\ pc' = "exit1"
    /\ UNCHANGED <<debug, filesXML, activities, store, faults, dest, fileMapping,
                   copiedFiles, runs, destAtStart, sanVars>>

MainResolve ==
    LET r == processActivitiesFolder(activities, fileMapping, stdout) IN
    /\ pc = "built"
    /\ r.err = ""
    /\ fileMapping' = r.fileMapping
    /\ stdout' = r.out
    /\ handles' = handles \o r.open
    /\ opened' = opened + r.opened
    /\ pc' = "resolved"
    /\ UNCHANGED <<debug, filesXML, activities, store, faults, dest, copiedFiles,
                   runs, destAtStart, sanVars>>

\* processActivitiesFolder returns an error: main prints it and exits with status 1.
MainResolveFatal ==
    LET r == processActivitiesFolder(activities, fileMapping, stdout) IN
    /\ pc = "built"
    /\ r.err # ""
    /\ stdout' = Printf(r.out, Line(r.err, "", Empty))
    /\ handles' = handles \o r.open
    /\ opened' = opened + r.opened
    /\ pc' = "exit1"
    /\ UNCHANGED <<debug, filesXML, activities, store, faults, dest, fileMapping,
                   copiedFiles, runs, destAtStart, sanVars>>

\* A main that calls copyFiles without waiting for processActivitiesFolder.
MainCopyUnresolved ==
    /\ pc \in {"built", "resolved"}
    /\ \E order \in Orders(DOMAIN fileMapping) :
          \E r \in {copyFiles(dest, fileMapping, order, stdout)} :
          /\ dest' = r.fs
          /\ copiedFiles' = r.copiedFiles
          /\ handles' = handles \o r.open
          /\ opened' = opened + r.opened
          /\ stdout' = Printf(r.out, Line(IF r.copiedFiles = 0 THEN "No files copied."
                                          ELSE "Copied files", "", destinationFolder))
    /\ pc' = "done"
    /\ UNCHANGED <<debug, filesXML, activities, store, faults, fileMapping,
                   runs, destAtStart, sanVars>>

\* copyFiles and the closing message.  The order of a range over a Go map is
\* not specified: any order of the keys can be the one of this run.  r is
\* what the call returns.
MainCopy ==
    /\ pc = "resolved"
    /\ \E order \in Orders(DOMAIN fileMapping) :
          \E r \in {copyFiles(dest, fileMapping, order, stdout)} :
          /\ dest' = r.fs
          /\ copiedFiles' = r.copiedFiles
          /\ handles' = handles \o r.open
          /\ opened' = opened + r.opened
          /\ stdout' = Printf(r.out, Line(IF r.copiedFiles = 0 THEN "No files copied."
                                          ELSE "Copied files", "", destinationFolder))
    /\ pc' = "done"
    /\ UNCHANGED <<debug, filesXML, activities, store, faults, fileMapping,
                   runs, destAtStart, sanVars>>

\* The program is started again with the same source and destination.
Rerun ==
    /\ pc \in {"done", "exit1"}
    /\ runs < MaxRuns
    /\ runs' = runs + 1
    /\ pc' = "start"
    /\ fileMapping' = EmptyMap
    /\ copiedFiles' = 0
    /\ stdout' = <<>>
    /\ handles' = <<>>
    /\ opened' = 0
    /\ destAtStart' = dest
    /\ UNCHANGED <<debug, filesXML, activities, store, faults, dest, sanVars>>

Next ==
    \/ MainBuild
    \/ MainBuildFatal
    \/ MainResolve
    \/ MainResolveFatal
    \/ MainCopy
    \/ Rerun

\* sanitizeFileName applied to the result of the previous call.
SanitizeCall ==
    /\ pc = "sanitize"
    /\ calls < MaxCalls
    /\ sanitized' = sanitizeFileName(sanitized)
    /\ calls' = calls + 1
    /\ UNCHANGED <<mainVars, fileName>>

(***************************************************************************)
(* Inputs.                                                                 *)
(***************************************************************************)
SeqsUpTo(S, n) == UNION {[1..k -> S] : k \in 0..n}

XML(files) == [open |-> TRUE, parse |-> TRUE, files |-> files]
\* files.xml is not in the source.
MissingXML == [open |-> FALSE, parse |-> FALSE, files |-> <<>>]
\* files.xml is cut after its first <file> element.
MalformedXML == [open |-> TRUE, parse |-> FALSE, files |-> <<File("1", HashAB, StrA)>>]

FolderXML(open, parse, name) == [open |-> open, parse |-> parse, FolderName |-> name]
InforefXML(open, parse, refs) == [open |-> open, parse |-> parse, Files |-> refs]
Bundle(folderXML, inforefXML) == [folderXML |-> folderXML, inforefXML |-> inforefXML]

QuizPrefix == <<113, 117, 105, 122, 95>>     \* "quiz_"
\* The i-th name of the listing: "folder_<i>" or "quiz_<i>".
DirName(prefix, i) == prefix \o <<48 + i>>

\* fs.ReadDir lists the entries sorted by name: every "folder_" name comes
\* before every "quiz_" name, and the i-th name ends in the digit i.
Listing(choice) ==
    [i \in 1..Len(choice) |->
        [Name |-> DirName(choice[i][1], i),
         folderXML |-> choice[i][2].folderXML,
         inforefXML |-> choice[i][2].inforefXML]]

Sorted(choice) ==
    \A i, j \in 1..Len(choice) :
        i < j => ~(choice[i][1] = QuizPrefix /\ choice[j][1] = FolderPrefix)

Activities(dirs) == [list |-> TRUE, dirs |-> dirs]
Unlistable == [list |-> FALSE, dirs |-> <<>>]

\* One bundle "folder_1" that files record "1" under "d".
OneBundle ==
    Activities(Listing(<< <<FolderPrefix,
                            Bundle(FolderXML(TRUE, TRUE, StrD),
                                   InforefXML(TRUE, TRUE, <<"1">>))>> >>))

\* Where copyFiles looks for the payload of hash.
StorePath(hash) == PathJoin(<<FilesDir, SubSeq(hash, 1, 2), hash>>)
FullStore ==
    {StorePath(HashAB), StorePath(HashCD), StorePath(HashE), StorePath(HashEA),
     <<FilesDir, HashX, HashX>>}

NoFaults == [mkdir |-> {}, create |-> {}, copy |-> {}]

\* "/" and "/w" exist; the destination folder "/w/out" does not.
BaseFS == (<<>> :> DirNode) @@ (Dir(destinationFolder) :> DirNode)
\* The destination folder exists and holds a file "a".
UsedFS ==
    MapPut(MapPut(BaseFS, destinationFolder, DirNode),
           Join(destinationFolder, <<StrA>>), FileNode(OldContent))

FirstRun ==
    /\ pc = "start"
    /\ fileMapping = EmptyMap
    /\ copiedFiles = 0
    /\ stdout = <<>>
    /\ handles = <<>>
    /\ opened = 0
    /\ runs = 1
    /\ destAtStart = dest
    /\ fileName = <<>>
    /\ sanitized = <<>>
    /\ calls = 0

(***************************************************************************)
(* SpecSanitize: sanitizeFileName on every string of at most MaxLen        *)
(* characters over an alphabet of allowed and forbidden characters.        *)
(***************************************************************************)
Alphabet == {97, 46, 47, 58, 9}     \* a . / : TAB

InitSanitize ==
    /\ fileName \in SeqsUpTo(Alphabet, MaxLen)
    /\ sanitized = fileName
    /\ calls = 0
    /\ pc = "sanitize"
    /\ debug = FALSE
    /\ filesXML = MissingXML
    /\ activities = Unlistable
    /\ store = {}
    /\ faults = NoFaults
    /\ dest = BaseFS
    /\ destAtStart = BaseFS
    /\ fileMapping = EmptyMap
    /\ copiedFiles = 0
    /\ stdout = <<>>
    /\ handles = <<>>
    /\ opened = 0
    /\ runs = 1

SpecSanitize == InitSanitize /\ [][SanitizeCall]_vars

(***************************************************************************)
(* SpecBuild: the program on every files.xml of at most MaxFiles entries.  *)
(***************************************************************************)
BuildEntries ==
    {File(id, HashAB, name) : id \in {"1", "2"}, name \in {StrA, StrB, Slash}}
    \cup {File("", HashAB, StrA), File("1", Empty, StrA),
          File("1", HashAB, Dot), File("2", HashAB, <<46, 47>>)}

InitBuild ==
    /\ \/ /\ filesXML \in {XML(files) : files \in SeqsUpTo(BuildEntries, MaxFiles)}
          /\ activities = OneBundle
       \/ /\ filesXML \in {MissingXML, MalformedXML}
          /\ activities = OneBundle
       \/ /\ filesXML = XML(<<File("1", HashAB, StrA)>>)
          /\ activities = Unlistable
    /\ debug = FALSE
    /\ store = FullStore
    /\ faults = NoFaults
    /\ dest = BaseFS
    /\ FirstRun

SpecBuild == InitBuild /\ [][Next]_vars

(***************************************************************************)
(* SpecResolve: the program on every activities directory of at most       *)
(* MaxDirs entries, for a files.xml with the records "1" and "2".          *)
(***************************************************************************)
TwoFiles == XML(<<File("1", HashAB, StrA), File("2", HashCD, StrB)>>)

\* Bundles that are read: a folder name ("d", "e:" or "/") and references.
ReadBundles ==
    {Bundle(FolderXML(TRUE, TRUE, name), InforefXML(TRUE, TRUE, refs)) :
        name \in {StrD, <<101, 58>>, Slash},
        refs \in {<<"1">>, <<"2">>, <<"9", "1">>}}

\* Bundles that are skipped: folder.xml or inforef.xml missing or malformed.
SkippedBundles ==
    {Bundle(FolderXML(FALSE, FALSE, Empty), InforefXML(TRUE, TRUE, <<"1">>)),
     Bundle(FolderXML(TRUE, FALSE, StrD), InforefXML(TRUE, TRUE, <<"1">>)),
     Bundle(FolderXML(TRUE, TRUE, StrD), InforefXML(FALSE, FALSE, <<>>)),
     Bundle(FolderXML(TRUE, TRUE, StrD), InforefXML(TRUE, FALSE, <<"1">>))}

DirChoices ==
    ({FolderPrefix} \X (ReadBundles \cup SkippedBundles))
    \cup {<<QuizPrefix, Bundle(FolderXML(TRUE, TRUE, StrD), InforefXML(TRUE, TRUE, <<"2">>))>>}

InitResolve ==
    /\ \/ /\ filesXML = TwoFiles
          /\ activities \in {Activities(Listing(choice)) :
                                choice \in {c \in SeqsUpTo(DirChoices, MaxDirs) : Sorted(c)}}
       \/ /\ filesXML = TwoFiles
          /\ activities = Unlistable
       \/ /\ filesXML \in {MissingXML, MalformedXML}
          /\ activities = OneBundle
    /\ debug \in BOOLEAN
    /\ store = FullStore
    /\ faults = NoFaults
    /\ dest = BaseFS
    /\ FirstRun

SpecResolve == InitResolve /\ [][Next]_vars

(***************************************************************************)
(* SpecCopy: the program on mappings of at most MaxRecords records, with   *)
(* short hashes, missing payloads, names that are empty or "..", files     *)
(* already at the destination and failing operations.                      *)
(***************************************************************************)
\* The i-th entry has id "<i>" and the hash "ab" with a name "a", ".." or "/",
\* or one of the hashes "x", "\u00e9", "\u00e9a" and ".." with the name "a".
CopyFilesXML ==
    {XML(files) :
        files \in {f \in SeqsUpTo({File(id, hn[1], hn[2]) :
                                      id \in {ToString(i) : i \in 1..MaxRecords},
                                      hn \in ({HashAB} \X {StrA, DotDot, Slash})
                                             \cup ({HashX, HashE, HashEA, HashDots}
                                                   \X {StrA})}, MaxRecords) :
                      \A i \in 1..Len(f) : f[i].ID = ToString(i)}}

\* No bundle, or one bundle that files record "1" under "d", under "a" (the
\* file name of other records) or under "..".
CopyActivities ==
    {Activities(<<>>)}
    \cup {Activities(Listing(<< <<FolderPrefix,
                                  Bundle(FolderXML(TRUE, TRUE, name),
                                         InforefXML(TRUE, TRUE, <<"1">>))>> >>)) :
             name \in {StrD, StrA, DotDot}}

\* The store, the destination and the failing operations: [store, dest, faults].
Environment(st, fs, f) == [store |-> st, dest |-> fs, faults |-> f]

Environments ==
    {Environment(st, fs, NoFaults) :
        st \in {FullStore, FullStore \ {StorePath(HashAB)}}, fs \in {BaseFS, UsedFS}}
    \cup {Environment(FullStore, BaseFS, f) :
             f \in {[NoFaults EXCEPT !.mkdir = {Join(destinationFolder, <<StrD>>)}],
                    [NoFaults EXCEPT !.create = {Join(destinationFolder, <<StrD, StrA>>)}],
                    [NoFaults EXCEPT !.copy = {StorePath(HashAB)}]}}

InitCopy ==
    /\ \/ /\ filesXML \in CopyFilesXML
          /\ activities \in CopyActivities
       \/ /\ filesXML \in {MissingXML, MalformedXML}
          /\ activities = OneBundle
       \/ /\ filesXML = TwoFiles
          /\ activities = Unlistable
    /\ \E env \in Environments :
          /\ store = env.store
          /\ dest = env.dest
          /\ faults = env.faults
    /\ debug = FALSE
    /\ FirstRun

SpecCopy == InitCopy /\ [][Next]_vars

(***************************************************************************)
(* Properties of sanitizeFileName and buildFileMapping.                    *)
(***************************************************************************)
\* s with its forbidden characters deleted.
Deleted(s) == SelectSeq(s, LAMBDA c : c \notin forbidden)

\* What the claims call a valid entry of files.xml.
ValidEntry(e) ==
    /\ e.ID # ""
    /\ e.ContentHash # Empty
    /\ Deleted(e.Filename) # Dot

ValidIndexes == {i \in 1..Len(filesXML.files) : ValidEntry(filesXML.files[i])}

LastValid(id) ==
    CHOOSE i \in ValidIndexes :
        /\ filesXML.files[i].ID = id
        /\ \A j \in ValidIndexes : filesXML.files[j].ID = id => j <= i

\* C1: when buildFileMapping has returned, the keys of the mapping are exactly
\* the ids of the valid entries of files.xml, and the record of an id is the
\* last valid entry with that id, its file name sanitized and its folder empty.
C1_LastValidEntryWins ==
    pc = "built" =>
        /\ DOMAIN fileMapping = {filesXML.files[i].ID : i \in ValidIndexes}
        /\ \A id \in DOMAIN fileMapping :
              fileMapping[id] =
                  [ID |-> id,
                   ContentHash |-> filesXML.files[LastValid(id)].ContentHash,
                   Filename |-> Deleted(filesXML.files[LastValid(id)].Filename),
                   Folder |-> Empty]

\* Two valid entries of one id with different names, then an invalid entry of
\* the same id: the mapping holds the second.
C1_Witness ==
    /\ pc = "built"
    /\ Len(filesXML.files) = 3
    /\ ValidIndexes = {1, 2}
    /\ filesXML.files[1].ID = filesXML.files[2].ID
    /\ filesXML.files[3].ID = filesXML.files[2].ID
    /\ filesXML.files[1].Filename # filesXML.files[2].Filename
    /\ fileMapping[filesXML.files[2].ID].Filename = filesXML.files[2].Filename

\* C2: once buildFileMapping has returned, every record of the mapping has a
\* non-empty id, a non-empty content hash and a file name that is neither
\* empty nor ".".
C2_RecordsAreNamed ==
    pc \in {"built", "resolved", "done"} =>
        \A id \in DOMAIN fileMapping :
            /\ fileMapping[id].ID # ""
            /\ fileMapping[id].ContentHash # Empty
            /\ fileMapping[id].Filename # Empty
            /\ fileMapping[id].Filename # Dot

\* C3: sanitizeFileName returns its argument with the forbidden characters
\* deleted and the other characters kept in order, and applying it to its own
\* result changes nothing.
C3_SanitizeDeletesOnce ==
    calls >= 1 =>
        /\ sanitized = Deleted(fileName)
        /\ \A i \in 1..Len(sanitized) : sanitized[i] \notin forbidden

\* Applied twice to a string of one allowed character and a run of two
\* forbidden ones.
C3_Witness ==
    /\ calls = 2
    /\ Len(fileName) = 3
    /\ Len(sanitized) = 1
    /\ \E i \in 1..2 : fileName[i] \in forbidden /\ fileName[i + 1] \in forbidden

(***************************************************************************)
(* Properties of processActivitiesFolder.                                  *)
(***************************************************************************)
Range(f) == {f[x] : x \in DOMAIN f}

\* The mapping buildFileMapping returned in this run.
MappingBuilt == buildFileMapping(filesXML, <<>>).fileMapping

\* The mapping processActivitiesFolder leaves when the directory lists dirs.
Resolved(dirs) == processActivitiesFolder(Activities(dirs), MappingBuilt, <<>>).fileMapping

FolderIndexes ==
    {i \in 1..Len(activities.dirs) : HasPrefix(activities.dirs[i].Name, FolderPrefix)}

\* The ids a bundle's inforef.xml references.
Refs(dir) ==
    IF dir.inforefXML.open /\ dir.inforefXML.parse THEN Range(dir.inforefXML.Files) ELSE {}

PairwiseDisjoint ==
    \A i, j \in FolderIndexes :
        i # j => Refs(activities.dirs[i]) \cap Refs(activities.dirs[j]) = {}

\* The ways to put the folder_ bundles in another order: the contents of the
\* folder_ directories exchanged, the names staying where they are.
BundleOrders ==
    {p \in [1..Len(activities.dirs) -> 1..Len(activities.dirs)] :
        /\ \A i, j \in DOMAIN p : i # j => p[i] # p[j]
        /\ \A i \in DOMAIN p : i \notin FolderIndexes => p[i] = i}

Reordered(p) ==
    [i \in 1..Len(activities.dirs) |->
        [activities.dirs[p[i]] EXCEPT !.Name = activities.dirs[i].Name]]

\* C4: when the folder_ bundles reference pairwise disjoint sets of ids, the
\* mapping after processActivitiesFolder is the one every other order of the
\* bundles gives.
C4_DisjointBundlesCommute ==
    (pc = "resolved" /\ PairwiseDisjoint) =>
        \A p \in BundleOrders : Resolved(Reordered(p)) = fileMapping

\* Two bundles that are read, one filing "1" and the other "2", under
\* different folder names.
C4_Witness ==
    /\ pc = "resolved"
    /\ PairwiseDisjoint
    /\ \E i, j \in FolderIndexes :
          /\ i # j
          /\ bundleRead(activities.dirs[i]) /\ bundleRead(activities.dirs[j])
          /\ Refs(activities.dirs[i]) = {"1"}
          /\ Refs(activities.dirs[j]) = {"2"}
    /\ fileMapping["1"].Folder # fileMapping["2"].Folder
    /\ fileMapping["1"].Folder # Empty
    /\ fileMapping["2"].Folder # Empty

\* The references of read bundles to ids that are not keys of the mapping.
Dangling ==
    {id \in UNION {Refs(activities.dirs[i]) :
                      i \in {k \in FolderIndexes : bundleRead(activities.dirs[k])}} :
        id \notin DOMAIN MappingBuilt}

Warned(id) ==
    \E k \in 1..Len(stdout) :
        /\ stdout[k].msg = "Warning: File ID not found in file_mapping"
        /\ stdout[k].id = id

\* dirs with the dangling references taken out of every inforef.xml.
WithoutDangling(dirs) ==
    [i \in 1..Len(dirs) |->
        [dirs[i] EXCEPT !.inforefXML.Files =
            SelectSeq(@, LAMBDA id : id \in DOMAIN MappingBuilt)]]

\* The run has not exited with status 1 unless files.xml or the activities
\* directory could not be read.
ExitOnlyOnFatal ==
    pc = "exit1" =>
        ~(filesXML.open /\ filesXML.parse) \/ ~activities.list

\* C8 as claimed: every dangling reference produces a warning; it adds no key,
\* changes no record, and the run does not fail.
C8_DanglingAlwaysWarns ==
    /\ ExitOnlyOnFatal
    /\ pc = "resolved" =>
          /\ \A id \in Dangling : Warned(id)
          /\ DOMAIN fileMapping = DOMAIN MappingBuilt
          /\ fileMapping = Resolved(WithoutDangling(activities.dirs))

\* C8, amended: a dangling reference produces a warning exactly when the
\* program runs with -d; with or without it, it adds no key, changes no
\* record, and the run does not fail.
C8_DanglingWarnsInDebug ==
    /\ ExitOnlyOnFatal
    /\ pc = "resolved" =>
          /\ \A id \in Dangling : Warned(id) <=> debug
          /\ DOMAIN fileMapping = DOMAIN MappingBuilt
          /\ fileMapping = Resolved(WithoutDangling(activities.dirs))

\* With -d, a bundle references "9", which is no key, and then "1".
C8_Witness ==
    /\ pc = "resolved"
    /\ debug
    /\ Dangling = {"9"}
    /\ Warned("9")
    /\ fileMapping["1"].Folder # Empty

\* The folder_ bundles that are skipped.
SkippedIndexes == {i \in FolderIndexes : ~bundleRead(activities.dirs[i])}

\* dirs without the skipped bundles, the others in the same order.
RECURSIVE Remaining(_, _)
Remaining(dirs, i) ==
    IF i > Len(dirs) THEN <<>>
    ELSE (IF i \in SkippedIndexes THEN <<>> ELSE <<dirs[i]>>) \o Remaining(dirs, i + 1)

\* C10: skipped bundles do not make the run fail, and the mapping after
\* processActivitiesFolder is the one the remaining bundles alone give, in the
\* same order.
C10_SkippedBundlesAreIndependent ==
    /\ pc = "exit1" => ~(filesXML.open /\ filesXML.parse /\ activities.list)
    /\ pc = "resolved" => fileMapping = Resolved(Remaining(activities.dirs, 1))

\* A skipped bundle whose decoded data names "1" comes before a bundle that
\* files "2": "2" is filed and "1" is not.
C10_Witness ==
    /\ pc = "resolved"
    /\ Len(activities.dirs) = 2
    /\ SkippedIndexes = {1}
    /\ activities.dirs[1].inforefXML.Files = <<"1">>
    /\ bundleRead(activities.dirs[2])
    /\ fileMapping["2"].Folder # Empty
    /\ fileMapping["1"].Folder = Empty

(***************************************************************************)
(* Properties of copyFiles and of main.                                    *)
(***************************************************************************)
Said(msg, id) ==
    \E k \in 1..Len(stdout) : stdout[k].msg = msg /\ stdout[k].id = id

\* The lines this run has printed about the record id.
LinesAbout(id) == SelectSeq(stdout, LAMBDA line : line.id = id)

\* C5: a second run on the same source and destination leaves the destination
\* as the first run left it, and its copyFiles returns 0.
C5_SecondRunCopiesNothing ==
    (runs >= 2 /\ pc = "done") =>
        /\ dest = destAtStart
        /\ copiedFiles = 0

\* The first run copied a payload; the second finds it there and skips it.
C5_Witness ==
    /\ runs = 2
    /\ pc = "done"
    /\ copiedFiles = 0
    /\ \E id \in DOMAIN fileMapping :
          /\ destinationPath(fileMapping[id]) \in DOMAIN dest
          /\ dest[destinationPath(fileMapping[id])] =
                 FileNode(Payload(fileMapping[id].ContentHash))
          /\ Said("Skip (already exists)", id)

\* The records whose destination was there when the run started.
TargetsExisting ==
    {id \in DOMAIN fileMapping : destinationPath(fileMapping[id]) \in DOMAIN destAtStart}

\* Those of them that copyFiles looks for at the destination: the hash is long
\* enough and the payload opens.
FoundExisting ==
    {id \in TargetsExisting :
        /\ Len(fileMapping[id].ContentHash) >= 2
        /\ sourceFilePath(fileMapping[id]) \in store}

\* C6: when copyFiles has returned, everything that was at the destination
\* before is there unchanged; about a record whose destination was there one
\* line is printed, which is no error ("Skip (already exists)" when its payload
\* was opened), and the record is not counted.
C6_ExistingFilesAreKept ==
    pc = "done" =>
        /\ \A p \in DOMAIN destAtStart : p \in DOMAIN dest /\ dest[p] = destAtStart[p]
        /\ \A id \in TargetsExisting :
              /\ Len(LinesAbout(id)) = 1
              /\ LinesAbout(id)[1].msg \in {"Skip (already exists)",
                                            "Warning: Invalid ContentHash",
                                            "Warning: File not found in source folder"}
        /\ \A id \in FoundExisting : Said("Skip (already exists)", id)
        /\ copiedFiles <= Cardinality(DOMAIN fileMapping \ TargetsExisting)

\* A record's payload is in the store and its destination /w/out/a holds an
\* older file: the older file is still there.
C6_Witness ==
    /\ pc = "done"
    /\ runs = 1
    /\ \E id \in FoundExisting :
          /\ destAtStart[destinationPath(fileMapping[id])] = FileNode(OldContent)
          /\ dest[destinationPath(fileMapping[id])] = FileNode(OldContent)

ShortHashed == {id \in DOMAIN fileMapping : Len(fileMapping[id].ContentHash) = 1}

\* The mapping without the records of ids.
Without(ids) == [id \in DOMAIN fileMapping \ ids |-> fileMapping[id]]

\* C7: when copyFiles has returned, all that happened for a record whose hash
\* has length 1 (one byte, the length len gives) is the warning, and the destination and the count are those of
\* copyFiles on the mapping without these records.
C7_ShortHashIsSkipped ==
    pc = "done" =>
        /\ \A id \in ShortHashed :
              /\ Len(LinesAbout(id)) = 1
              /\ Said("Warning: Invalid ContentHash", id)
        /\ \E order \in Orders(DOMAIN fileMapping \ ShortHashed) :
              LET r == copyFiles(destAtStart, Without(ShortHashed), order, <<>>) IN
              /\ r.fs = dest
              /\ r.copiedFiles = copiedFiles

\* A record with the hash "x", while files/x/x is in the store and nothing is
\* at the record's destination, next to a record that is copied.
C7_Witness ==
    /\ pc = "done"
    /\ runs = 1
    /\ copiedFiles = 1
    /\ <<FilesDir, HashX, HashX>> \in store
    /\ \E id \in ShortHashed : destinationPath(fileMapping[id]) \notin DOMAIN dest

\* files.xml cannot be opened or decoded, or the activities directory cannot
\* be listed.
FatalInput == ~filesXML.open \/ ~filesXML.parse \/ ~activities.list

\* C9: on such a source the run never gets to copyFiles, the destination stays
\* as it was, the only step the run can take is the one that exits with
\* status 1, and the run exits having printed the error.
C9_FatalInputCopiesNothing ==
    FatalInput =>
        /\ pc \in {"start", "built", "exit1"}
        /\ dest = destAtStart
        /\ (pc = "start" /\ ~(filesXML.open /\ filesXML.parse)) =>
               ENABLED MainBuildFatal /\ ~ENABLED MainBuild
        /\ pc = "built" => ENABLED MainResolveFatal /\ ~ENABLED MainResolve
        /\ pc = "exit1" =>
               stdout[Len(stdout)].msg \in {"error reading files.xml",
                                            "error parsing files.xml",
                                            "error reading activities folder"}

\* The activities directory cannot be listed while the mapping holds a record
\* whose payload is in the store: the run has exited and nothing was copied.
C9_Witness ==
    /\ pc = "exit1"
    /\ ~activities.list
    /\ \E id \in DOMAIN fileMapping : sourceFilePath(fileMapping[id]) \in store
    /\ dest = BaseFS

(***************************************************************************)
(* Properties of copyFiles, record by record.                              *)
(***************************************************************************)
\* What copyFiles prints about a record: one of these lines in each iteration.
CopyMessages ==
    {"Warning: Invalid ContentHash", "Warning: File not found in source folder",
     "Skip (already exists)", "Error checking file", "Error checking directory",
     "Error creating directory", "Error creating file", "Error copying file", "Create"}

\* The keys in the order in which the copyFiles of this run took them.
CopyOrder ==
    LET lines == SelectSeq(stdout, LAMBDA line : line.id # "" /\ line.msg \in CopyMessages)
    IN  [k \in 1..Len(lines) |-> lines[k].id]

\* The records this run's copyFiles took before it took the record id.
Before(id) ==
    IF \E k \in 1..Len(CopyOrder) : CopyOrder[k] = id
    THEN SubSeq(CopyOrder, 1, (CHOOSE k \in 1..Len(CopyOrder) : CopyOrder[k] = id) - 1)
    ELSE CopyOrder

\* The destination as it was when copyFiles took the record id.
DestBefore(id) == copyFiles(destAtStart, fileMapping, Before(id), <<>>).fs

\* An operation of the iteration for id fails when the destination is before:
\* os.Stat of the destination path (a part of the path is a regular file), or
\* an operation that the environment makes fail.
OwnFailure(id, before) ==
    LET dst == destinationPath(fileMapping[id]) IN
    \/ Stat(before, dst) = "ENOTDIR"
    \/ sourceFilePath(fileMapping[id]) \in faults.copy
    \/ dst \in faults.create
    \/ \E k \in 1..(Len(dst) - 1) :
          /\ SubSeq(dst, 1, k) \in faults.mkdir
          /\ SubSeq(dst, 1, k) \notin DOMAIN before

\* The records with a hash of two bytes or more and a payload that opens at
\* files/<the first two bytes of the hash>/<the hash>.
Readable ==
    {id \in DOMAIN fileMapping :
        /\ Len(fileMapping[id].ContentHash) >= 2
        /\ sourceFilePath(fileMapping[id]) \in store}

\* The record id is readable, and with the destination being before there is
\* nothing at its destination path and no operation of its iteration fails.
Sound(id, before) ==
    /\ id \in Readable
    /\ Stat(before, destinationPath(fileMapping[id])) # "ok"
    /\ ~OwnFailure(id, before)

\* The destination path of id holds the whole payload of id.
Delivered(id) ==
    LET dst == destinationPath(fileMapping[id]) IN
    /\ dst \in DOMAIN dest
    /\ dest[dst] = FileNode(Payload(fileMapping[id].ContentHash))

\* The records copyFiles did not copy because an operation failed or the
\* payload was missing.
Failed ==
    {id \in DOMAIN fileMapping :
        \/ Said("Warning: File not found in source folder", id)
        \/ Said("Error creating directory", id)
        \/ Said("Error creating file", id)
        \/ Said("Error copying file", id)}

\* C11: when copyFiles has returned, every record with a hash of two
\* bytes or more, a payload that opens, nothing at its destination path
\* when copyFiles took it and no failing operation of its own has its whole
\* payload at its destination path, whatever happened to the other records.
C11_SoundRecordsAreDelivered ==
    pc = "done" =>
        \A id \in Readable :
            \A before \in {DestBefore(id)} : Sound(id, before) => Delivered(id)

\* A sound record was delivered after copyFiles had given up another record.
C11_Witness ==
    /\ pc = "done"
    /\ \E id \in Readable :
          /\ Sound(id, DestBefore(id))
          /\ Delivered(id)
          /\ \E k \in 1..Len(Before(id)) : Before(id)[k] \in Failed

\* The regular files of a file system, each with its content.
Files(fs) == [p \in {q \in DOMAIN fs : fs[q].kind = "file"} |-> fs[p].content]

\* C12: when copyFiles has returned, the files at the destination, the content
\* of each and the returned count are the ones that copyFiles arrives at in
\* every order in which the range over the mapping can yield its keys.
C12_OrderDoesNotMatter ==
    pc = "done" =>
        \A order \in Orders(DOMAIN fileMapping) :
            LET r == copyFiles(destAtStart, fileMapping, order, <<>>) IN
            /\ Files(r.fs) = Files(dest)
            /\ r.copiedFiles = copiedFiles

(***************************************************************************)
(* Properties of processActivitiesFolder, record by record.                *)
(***************************************************************************)
\* The positions in the listing of the folder_ bundles that were read and
\* reference id.
ReferencedBy(id) ==
    {i \in FolderIndexes :
        /\ bundleRead(activities.dirs[i])
        /\ id \in Range(activities.dirs[i].inforefXML.Files)}

\* The folder name of the i-th bundle with its forbidden characters deleted.
FolderNameOf(i) == Deleted(activities.dirs[i].folderXML.FolderName)

\* C13: when processActivitiesFolder has returned, the folder of a record that
\* bundles that were read reference is the sanitized folder name of the last
\* of these bundles in the listing, be it empty, whatever the earlier ones
\* filed it under; and the run has printed no warning about the record.
C13_LastBundleWins ==
    pc = "resolved" =>
        \A id \in DOMAIN fileMapping :
            /\ \A i \in ReferencedBy(id) :
                  (\A j \in ReferencedBy(id) : j <= i) =>
                      fileMapping[id].Folder = FolderNameOf(i)
            /\ \A k \in 1..Len(LinesAbout(id)) :
                  LinesAbout(id)[k].msg \in {"Added file to mapping",
                                             "Assigned folder to file"}

\* Two bundles that were read reference one record: the first under a folder
\* name that is not empty, the second under one that sanitizes to the empty
\* string, and the record is left without a folder.
C13_Witness ==
    /\ pc = "resolved"
    /\ \E id \in DOMAIN fileMapping :
          \E i, j \in ReferencedBy(id) :
              /\ i < j
              /\ FolderNameOf(i) # Empty
              /\ FolderNameOf(j) = Empty
              /\ fileMapping[id].Folder = Empty

(***************************************************************************)
(* The order of the phases of a run.                                       *)
(***************************************************************************)
\* The step gives some record a folder it did not have.
Annotates ==
    \E id \in DOMAIN fileMapping' :
        /\ fileMapping'[id].Folder # Empty
        /\ id \in DOMAIN fileMapping => fileMapping[id].Folder # fileMapping'[id].Folder

\* C14: in every step of every run, a record is given a folder only by the
\* call of processActivitiesFolder, which begins when buildFileMapping has
\* returned; the destination is written only by the call of copyFiles, which
\* begins when processActivitiesFolder has returned; and the call of copyFiles
\* leaves the mapping, keys and fields, as it found it.
C14_PhasesInSequence ==
    [][/\ Annotates => (pc = "built" /\ pc' = "resolved")
       /\ dest' # dest => (pc = "resolved" /\ pc' = "done")
       /\ pc = "resolved" => fileMapping' = fileMapping]_vars

\* A run in which all three phases did something: a record has a folder and
\* copyFiles has written to the destination.
C14_Witness ==
    /\ pc = "done"
    /\ \E id \in DOMAIN fileMapping : fileMapping[id].Folder # Empty
    /\ dest # destAtStart
    /\ copiedFiles >= 1

(***************************************************************************)
(* File handles across the phases.                                         *)
(***************************************************************************)
\* C15: whenever buildFileMapping, processActivitiesFolder or copyFiles has
\* returned, by whichever path, no file that it opened is open: the next
\* operation starts, and the run ends, with no file open.
C15_HandlesClosedAtReturn == handles = <<>>

\* copyFiles has returned after an iteration that failed with the payload and
\* the destination file open, files.xml and a bundle having been read before.
C15_Witness ==
    /\ pc = "done"
    /\ opened >= 5
    /\ \E id \in DOMAIN fileMapping : Said("Error copying file", id)
    /\ handles = <<>>

(***************************************************************************)
(* What copyFiles leaves at the destination.                               *)
(***************************************************************************)
\* The paths that are there now and were not when the run started.
NewPaths == DOMAIN dest \ DOMAIN destAtStart

NewFiles == {p \in NewPaths : dest[p].kind = "file"}

\* C16: when copyFiles has returned, the count it returned is the number of
\* files that are at the destination and were not there when it started; a
\* record whose os.Create or io.Copy failed has left no file at its path.
C16_CountIsNewFiles ==
    pc = "done" =>
        /\ copiedFiles = Cardinality(NewFiles)
        /\ \A id \in DOMAIN fileMapping :
              (Said("Error creating file", id) \/ Said("Error copying file", id)) =>
                  destinationPath(fileMapping[id]) \notin NewFiles

\* p is the destination folder or a path below it.
Inside(p) == HasPrefix(p, destinationFolder)

\* C17: when copyFiles has returned, every file and directory it has created
\* is the destination folder or lies below it.
C17_CreatedInsideDestination ==
    pc = "done" => \A p \in NewPaths : Inside(p)

====
